---- MODULE Spec2Model ----
(***************************************************************************)
(* Model of fatiando/io.py: the CRUST2.0 converter (crust2_to_tesseroids   *)
(* with _crust2_get_topo, _crust2_get_codec, _crust2_get_types) and the    *)
(* Surfer grid reader (load_surfer).                                       *)
(*                                                                         *)
(* Text is modelled as sequences of one-character strings, so that         *)
(* str.strip, str.split, the [:2] slice of the code line, int() and        *)
(* float() are computed rather than assumed.  A floating point number is   *)
(* an IEEE 754 double: nan, an infinity, or (-1)^neg * m * 2^e with the    *)
(* natural number m held as its digits in base 2^15, least significant     *)
(* first; float(), *, +, - and / round to nearest, ties to even, as the    *)
(* interpreter does, so that float("2.01") * 1000 is 2009.9999999999998.   *)
(***************************************************************************)
EXTENDS Integers, Sequences, FiniteSets, TLC

VARIABLES
    call,      \* the entry point this run invokes
    pc,        \* position inside the call
    handles,   \* handles opened and not yet closed
    archive,   \* input: the members of the .tar.gz archive
    topogrd,   \* local of crust2_to_tesseroids
    codec,     \* local of crust2_to_tesseroids / _crust2_get_codec
    types,     \* local of crust2_to_tesseroids
    i,         \* outer loop index (row)
    j,         \* inner loop index (column)
    model,     \* local list of tesseroids
    sfile,     \* input: the Surfer grid file
    hdr,       \* locals of load_surfer read from the header
    grd,       \* local matrix of load_surfer
    result     \* what the caller receives

vars == <<call, pc, handles, archive, topogrd, codec, types, i, j, model,
          sfile, hdr, grd, result>>

-----------------------------------------------------------------------------
(* Bounds of the explored inputs *)

\* elevations of the first varied cell range over 0..MaxTopo
MaxTopo == 1
\* number of extra legend lines appended after the complete groups: 0..MaxTrail
MaxTrail == 2
\* Surfer body shapes range over 1..MaxDim rows and columns
MaxDim == 3

-----------------------------------------------------------------------------
(* Python text primitives *)

\* the characters str.strip() and str.split() treat as whitespace
WS == {" ", "\t", "\n", "\r", "\f", ""}

Digits == {"0", "1", "2", "3", "4", "5", "6", "7", "8", "9"}

DigitVal == ("0" :> 0) @@ ("1" :> 1) @@ ("2" :> 2) @@ ("3" :> 3) @@ ("4" :> 4)
            @@ ("5" :> 5) @@ ("6" :> 6) @@ ("7" :> 7) @@ ("8" :> 8) @@ ("9" :> 9)

RECURSIVE LStrip(_)
LStrip(s) == IF s # <<>> /\ Head(s) \in WS THEN LStrip(Tail(s)) ELSE s

RECURSIVE RStrip(_)
RStrip(s) ==
    IF s # <<>> /\ s[Len(s)] \in WS THEN RStrip(SubSeq(s, 1, Len(s) - 1)) ELSE s

\* str.strip()
Strip(s) == RStrip(LStrip(s))

RECURSIVE SplitAcc(_, _, _)
SplitAcc(s, cur, acc) ==
    IF s = <<>> THEN (IF cur = <<>> THEN acc ELSE Append(acc, cur))
    ELSE IF Head(s) \in WS
         THEN SplitAcc(Tail(s), <<>>, IF cur = <<>> THEN acc ELSE Append(acc, cur))
         ELSE SplitAcc(Tail(s), Append(cur, Head(s)), acc)

\* str.split() with no argument: runs of whitespace separate the tokens
Split(s) == SplitAcc(s, <<>>, <<>>)

\* s[:n]
Prefix(s, n) == SubSeq(s, 1, IF Len(s) < n THEN Len(s) ELSE n)

RECURSIVE DigitsVal(_, _)
DigitsVal(s, acc) ==
    IF s = <<>> THEN acc ELSE DigitsVal(Tail(s), 10 * acc + DigitVal[Head(s)])

AllDigits(s) == s # <<>> /\ \A k \in 1..Len(s) : s[k] \in Digits

\* [sign] [whitespace] digits: Python 2's int() skips whitespace between the
\* sign and the digits
SignedDigits(t) ==
    /\ t # <<>>
    /\ IF Head(t) \in {"-", "+"} THEN AllDigits(LStrip(Tail(t))) ELSE AllDigits(t)

SignedVal(t) ==
    IF Head(t) = "-" THEN 0 - DigitsVal(LStrip(Tail(t)), 0)
    ELSE IF Head(t) = "+" THEN DigitsVal(LStrip(Tail(t)), 0)
    ELSE DigitsVal(t, 0)

\* int(tok) succeeds: surrounding whitespace is ignored, then an optional
\* sign, optional whitespace and decimal digits
IsInt(tok) == SignedDigits(Strip(tok))

\* int(tok)
IntVal(tok) == SignedVal(Strip(tok))

-----------------------------------------------------------------------------
(* Natural numbers of any size *)

\* A natural number is the sequence of its digits in base Base, the least
\* significant first and the last one not 0; <<>> is 0.  The operations are
\* functions, so that their arguments are values when they are applied, and
\* they halve the sequences they walk, so that the nesting stays shallow.
LimbBits == 15

Base == 32768

Pow2[n \in Nat] == IF n = 0 THEN 1 ELSE 2 * Pow2[n - 1]

Pow10Small[n \in Nat] == IF n = 0 THEN 1 ELSE 10 * Pow10Small[n - 1]

\* a without its leading zero digits
Trim[a \in Seq(Nat)] ==
    IF \A x \in 1..Len(a) : a[x] = 0 THEN <<>>
    ELSE SubSeq(a, 1, CHOOSE x \in 1..Len(a) :
                         a[x] # 0 /\ \A y \in (x + 1)..Len(a) : a[y] = 0)

FromInt[n \in Nat] == IF n = 0 THEN <<>> ELSE <<n % Base>> \o FromInt[n \div Base]

Limb(a, k) == IF k <= Len(a) THEN a[k] ELSE 0

\* a with leading zero digits up to n digits
Pad(a, n) == a \o [x \in 1..(n - Len(a)) |-> 0]

LowHalf(a) == SubSeq(a, 1, Len(a) \div 2)

HighHalf(a) == SubSeq(a, Len(a) \div 2 + 1, Len(a))

Front(a) == SubSeq(a, 1, Len(a) - 1)

\* the Len(a) digits of a + b + c and the carry, for Len(a) = Len(b)
AddLimbs[a \in Seq(Nat), b \in Seq(Nat), c \in Nat] ==
    IF a = <<>> THEN <<c>>
    ELSE IF Len(a) = 1 THEN <<(a[1] + b[1] + c) % Base, (a[1] + b[1] + c) \div Base>>
    ELSE LET lo == AddLimbs[LowHalf(a), LowHalf(b), c]
         IN  Front(lo) \o AddLimbs[HighHalf(a), HighHalf(b), lo[Len(lo)]]

\* a + b
NAdd[a \in Seq(Nat), b \in Seq(Nat)] ==
    IF Len(a) < Len(b) THEN Trim[AddLimbs[Pad(a, Len(b)), b, 0]]
    ELSE Trim[AddLimbs[a, Pad(b, Len(a)), 0]]

\* the Len(a) digits of a - b - c and the borrow, for Len(a) = Len(b)
SubLimbs[a \in Seq(Nat), b \in Seq(Nat), c \in Nat] ==
    IF a = <<>> THEN <<c>>
    ELSE IF Len(a) = 1
    THEN <<(a[1] - b[1] - c + Base) % Base, IF a[1] - b[1] - c < 0 THEN 1 ELSE 0>>
    ELSE LET lo == SubLimbs[LowHalf(a), LowHalf(b), c]
         IN  Front(lo) \o SubLimbs[HighHalf(a), HighHalf(b), lo[Len(lo)]]

\* a - b for a >= b
NSub[a \in Seq(Nat), b \in Seq(Nat)] == Trim[Front(SubLimbs[a, Pad(b, Len(a)), 0])]

\* the order of a and b: -1, 0 or 1
NCmp[a \in Seq(Nat), b \in Seq(Nat)] ==
    IF Len(a) # Len(b) THEN (IF Len(a) < Len(b) THEN -1 ELSE 1)
    ELSE IF a = b THEN 0
    ELSE LET x == CHOOSE x \in 1..Len(a) :
                     a[x] # b[x] /\ \A y \in (x + 1)..Len(a) : a[y] = b[y]
         IN  IF a[x] < b[x] THEN -1 ELSE 1

\* the Len(a) digits of a * k + c and the carry, for k <= Base and c < Base
MulLimbs[a \in Seq(Nat), k \in Nat, c \in Nat] ==
    IF a = <<>> THEN <<c>>
    ELSE IF Len(a) = 1 THEN <<(a[1] * k + c) % Base, (a[1] * k + c) \div Base>>
    ELSE LET lo == MulLimbs[LowHalf(a), k, c]
         IN  Front(lo) \o MulLimbs[HighHalf(a), k, lo[Len(lo)]]

\* a * k + c
NMulSmall[a \in Seq(Nat), k \in Nat, c \in Nat] == Trim[MulLimbs[a, k, c]]

\* a * b
NMul[a \in Seq(Nat), b \in Seq(Nat)] ==
    IF a = <<>> \/ b = <<>> THEN <<>>
    ELSE IF Len(b) = 1 THEN NMulSmall[a, b[1], 0]
    ELSE NAdd[NMulSmall[a, b[1], 0], <<0>> \o NMul[a, Tail(b)]]

\* <<r>> \o q for the remainder r and the Len(a) digits q of the quotient of
\* r0 * Base^Len(a) + a by d, for 0 < d <= Base and r0 < d
DivLimbs[a \in Seq(Nat), d \in Nat, r0 \in Nat] ==
    IF a = <<>> THEN <<r0>>
    ELSE IF Len(a) = 1 THEN <<(r0 * Base + a[1]) % d, (r0 * Base + a[1]) \div d>>
    ELSE LET hi == DivLimbs[HighHalf(a), d, r0]
         IN  DivLimbs[LowHalf(a), d, hi[1]] \o Tail(hi)

\* a * 2^k
Shl[a \in Seq(Nat), k \in Nat] ==
    IF a = <<>> THEN <<>>
    ELSE [x \in 1..(k \div LimbBits) |-> 0] \o NMulSmall[a, Pow2[k % LimbBits], 0]

\* a \div 2^k
Shr[a \in Seq(Nat), k \in Nat] ==
    IF k \div LimbBits >= Len(a) THEN <<>>
    ELSE Trim[Tail(DivLimbs[SubSeq(a, k \div LimbBits + 1, Len(a)),
                            Pow2[k % LimbBits], 0])]

SmallBits[n \in Nat] == IF n = 0 THEN 0 ELSE 1 + SmallBits[n \div 2]

\* the number of binary digits of a
BitLen[a \in Seq(Nat)] ==
    IF a = <<>> THEN 0 ELSE LimbBits * (Len(a) - 1) + SmallBits[a[Len(a)]]

\* binary digit p (from 0) of a
Bit(a, p) == (Limb(a, p \div LimbBits + 1) \div Pow2[p % LimbBits]) % 2

\* the k lowest binary digits of a are 0
LowZero(a, k) ==
    /\ \A x \in 1..(k \div LimbBits) : Limb(a, x) = 0
    /\ Limb(a, k \div LimbBits + 1) % Pow2[k % LimbBits] = 0

SmallTrailing[n \in Nat] == IF n % 2 = 1 THEN 0 ELSE 1 + SmallTrailing[n \div 2]

\* the number of 0 binary digits a # 0 ends with
TrailingZeros[a \in Seq(Nat)] ==
    LET x == CHOOSE x \in 1..Len(a) : a[x] # 0 /\ \A y \in 1..(x - 1) : a[y] = 0
    IN  LimbBits * (x - 1) + SmallTrailing[a[x]]

\* a * 10^n
MulPow10[a \in Seq(Nat), n \in Nat] ==
    IF n <= 4 THEN NMulSmall[a, Pow10Small[n], 0]
    ELSE MulPow10[MulPow10[a, n \div 2], n - n \div 2]

\* <<s>> \o (a \div d) for t = <<s0>> \o a, s being 1 when s0 = 1 or the
\* division leaves a remainder
DivSticky[t \in Seq(Nat), d \in Nat] ==
    LET r == DivLimbs[Tail(t), d, 0]
    IN  <<IF r[1] # 0 THEN 1 ELSE t[1]>> \o Trim[Tail(r)]

\* the same dividing by 10^n
DivPow10[t \in Seq(Nat), n \in Nat] ==
    IF n <= 4 THEN DivSticky[t, Pow10Small[n]]
    ELSE DivPow10[DivPow10[t, n \div 2], n - n \div 2]

\* the number written by the decimal digits s
FromDigits[s \in Seq(Digits)] ==
    IF Len(s) <= 4 THEN FromInt[DigitsVal(s, 0)]
    ELSE NAdd[MulPow10[FromDigits[LowHalf(s)], Len(HighHalf(s))],
              FromDigits[HighHalf(s)]]

-----------------------------------------------------------------------------
(* Floating point numbers: IEEE 754 binary64, round to nearest, ties to even *)

\* A double is nan, an infinity, or (-1)^neg * m * 2^e with m a natural
\* number (as above) that is 0 (then e = 0) or odd and below 2^53, and
\* -1074 <= e.
NaN == [k |-> "nan", neg |-> FALSE, m |-> <<>>, e |-> 0]

Inf(neg) == [k |-> "inf", neg |-> neg, m |-> <<>>, e |-> 0]

Zero(neg) == [k |-> "fin", neg |-> neg, m |-> <<>>, e |-> 0]

Doubles == [k : {"fin", "inf", "nan"}, neg : BOOLEAN, m : Seq(Nat), e : Int]

MantissaBits == 53

\* the exponent of the lowest binary digit of a subnormal number
MinExp == -1074

\* 2^MaxExp is the first power of 2 that overflows
MaxExp == 1024

\* the number (-1)^neg * n * 2^e, held exactly: n's trailing zeros go to e
Pack[neg \in BOOLEAN, n \in Seq(Nat), e \in Int] ==
    IF n = <<>> THEN Zero(neg)
    ELSE IF BitLen[n] + e > MaxExp THEN Inf(neg)
    ELSE [k |-> "fin", neg |-> neg, m |-> Shr[n, TrailingZeros[n]],
          e |-> e + TrailingZeros[n]]

\* the binary digits that n * 2^e must drop to fit a double: those beyond
\* the 53 leading ones and those below 2^MinExp
RoundShift[n \in Seq(Nat), e \in Int] ==
    IF BitLen[n] - MantissaBits >= MinExp - e
    THEN (IF BitLen[n] > MantissaBits THEN BitLen[n] - MantissaBits ELSE 0)
    ELSE (IF MinExp > e THEN MinExp - e ELSE 0)

\* n without its sh lowest binary digits, rounded to nearest, ties to even:
\* up when the digits dropped are above half, or half and the last digit
\* kept is odd; sticky tells that the exact number is above n
Rounded[n \in Seq(Nat), sh \in Nat, sticky \in BOOLEAN] ==
    IF /\ sh > 0
       /\ Bit(n, sh - 1) = 1
       /\ (sticky \/ ~LowZero(n, sh - 1) \/ Bit(n, sh) = 1)
    THEN NAdd[Shr[n, sh], <<1>>]
    ELSE Shr[n, sh]

\* the double nearest to (-1)^neg * (n + f) * 2^e, where 0 <= f < 1 and
\* f > 0 iff sticky (n has more than 53 binary digits when sticky holds)
Round[neg \in BOOLEAN, n \in Seq(Nat), e \in Int, sticky \in BOOLEAN] ==
    Pack[neg, Rounded[n, RoundShift[n, e], sticky], e + RoundShift[n, e]]

\* the integer n as a double
Num(n) == Round[n < 0, FromInt[IF n < 0 THEN 0 - n ELSE n], 0, FALSE]

IsZero(x) == x.k = "fin" /\ x.m = <<>>

Neg(x) == IF x.k = "nan" THEN x ELSE [x EXCEPT !.neg = ~x.neg]

\* the order of the magnitudes of the finite non-zero a and b: -1, 0 or 1
CmpMag[a \in Doubles, b \in Doubles] ==
    IF BitLen[a.m] + a.e # BitLen[b.m] + b.e
    THEN (IF BitLen[a.m] + a.e < BitLen[b.m] + b.e THEN -1 ELSE 1)
    ELSE IF a.e <= b.e THEN NCmp[a.m, Shl[b.m, b.e - a.e]]
    ELSE NCmp[Shl[a.m, a.e - b.e], b.m]

\* the order of the finite a and b; -0.0 and 0.0 are equal
CmpFin[a \in Doubles, b \in Doubles] ==
    IF IsZero(a) /\ IsZero(b) THEN 0
    ELSE IF IsZero(a) THEN (IF b.neg THEN 1 ELSE -1)
    ELSE IF IsZero(b) THEN (IF a.neg THEN -1 ELSE 1)
    ELSE IF a.neg # b.neg THEN (IF a.neg THEN -1 ELSE 1)
    ELSE IF a.neg THEN 0 - CmpMag[a, b]
    ELSE CmpMag[a, b]

\* a < b; every comparison with nan is false
Less[a \in Doubles, b \in Doubles] ==
    IF a.k = "nan" \/ b.k = "nan" THEN FALSE
    ELSE IF a.k = "inf" THEN a.neg /\ ~(b.k = "inf" /\ b.neg)
    ELSE IF b.k = "inf" THEN ~b.neg
    ELSE CmpFin[a, b] < 0

\* a >= b
Geq(a, b) == a.k # "nan" /\ b.k # "nan" /\ ~Less[a, b]

\* a == b; -0.0 == 0.0, and nan equals nothing
Eq[a \in Doubles, b \in Doubles] ==
    a.k # "nan" /\ b.k # "nan" /\ (a = b \/ (IsZero(a) /\ IsZero(b)))

\* the sum rounded, or held exactly
Finish[neg \in BOOLEAN, n \in Seq(Nat), e \in Int, exact \in BOOLEAN] ==
    Pack[neg, Rounded[n, IF exact THEN 0 ELSE RoundShift[n, e], FALSE],
         e + (IF exact THEN 0 ELSE RoundShift[n, e])]

\* (-1)^an * x * 2^e + (-1)^bn * y * 2^e for x, y > 0
SumFin[an \in BOOLEAN, x \in Seq(Nat), bn \in BOOLEAN, y \in Seq(Nat), e \in Int, exact \in BOOLEAN] ==
    IF an # bn /\ x = y THEN Zero(FALSE)
    ELSE Finish[IF an = bn \/ NCmp[x, y] > 0 THEN an ELSE bn,
                IF an = bn THEN NAdd[x, y]
                ELSE IF NCmp[x, y] > 0 THEN NSub[x, y] ELSE NSub[y, x],
                e, exact]

SumOf[a \in Doubles, b \in Doubles, exact \in BOOLEAN] ==
    IF a.k = "nan" \/ b.k = "nan" THEN NaN
    ELSE IF a.k = "inf" /\ b.k = "inf" THEN (IF a.neg = b.neg THEN a ELSE NaN)
    ELSE IF a.k = "inf" THEN a
    ELSE IF b.k = "inf" THEN b
    ELSE IF IsZero(a) /\ IsZero(b) THEN Zero(a.neg /\ b.neg)
    ELSE IF IsZero(a) THEN b
    ELSE IF IsZero(b) THEN a
    ELSE SumFin[a.neg, Shl[a.m, IF a.e > b.e THEN a.e - b.e ELSE 0],
                b.neg, Shl[b.m, IF b.e > a.e THEN b.e - a.e ELSE 0],
                IF a.e <= b.e THEN a.e ELSE b.e, exact]

\* a + b
Add(a, b) == SumOf[a, b, FALSE]

\* a - b
Sub(a, b) == SumOf[a, Neg(b), FALSE]

\* a * b
Mul[a \in Doubles, b \in Doubles] ==
    IF a.k = "nan" \/ b.k = "nan" THEN NaN
    ELSE IF a.k = "inf" \/ b.k = "inf"
    THEN (IF IsZero(a) \/ IsZero(b) THEN NaN ELSE Inf(a.neg # b.neg))
    ELSE Round[a.neg # b.neg, NMul[a.m, b.m], a.e + b.e, FALSE]

\* float * 1000
Times1000(x) == Mul[x, Num(1000)]

\* the quotient and the remainder of a long division under way
DivState == [q : Seq(Nat), r : Seq(Nat)]

\* one step of the long division of n by d: binary digit p of n is brought
\* down to the remainder t.r, and the quotient t.q gets its next digit
DivBit[t \in DivState, n \in Seq(Nat), d \in Seq(Nat), p \in Nat] ==
    IF NCmp[NMulSmall[t.r, 2, Bit(n, p)], d] >= 0
    THEN [q |-> NMulSmall[t.q, 2, 1], r |-> NSub[NMulSmall[t.r, 2, Bit(n, p)], d]]
    ELSE [q |-> NMulSmall[t.q, 2, 0], r |-> NMulSmall[t.r, 2, Bit(n, p)]]

\* the steps for the binary digits hi, ..., lo of n
DivBits[t \in DivState, n \in Seq(Nat), d \in Seq(Nat), hi \in Nat, lo \in Nat] ==
    IF hi = lo THEN DivBit[t, n, d, hi]
    ELSE DivBits[DivBits[t, n, d, hi, lo + (hi - lo + 1) \div 2], n, d,
                 lo + (hi - lo + 1) \div 2 - 1, lo]

\* <<s>> \o (n \div d), s being 1 when the division leaves a remainder
LongDiv[n \in Seq(Nat), d \in Seq(Nat)] ==
    LET t == DivBits[[q |-> <<>>, r |-> <<>>], n, d, BitLen[n] - 1, 0]
    IN  <<IF t.r = <<>> THEN 0 ELSE 1>> \o t.q

\* extra binary digits of the dividend, so that the quotient has more than
\* 53 of them
DivShift == 110

QuotFin[neg \in BOOLEAN, qs \in Seq(Nat), e \in Int] ==
    Round[neg, Tail(qs), e, Head(qs) = 1]

Div[a \in Doubles, b \in Doubles] ==
    IF a.k = "nan" \/ b.k = "nan" THEN NaN
    ELSE IF a.k = "inf" THEN (IF b.k = "inf" THEN NaN ELSE Inf(a.neg # b.neg))
    ELSE IF b.k = "inf" THEN Zero(a.neg # b.neg)
    ELSE IF IsZero(b) THEN (IF IsZero(a) THEN NaN ELSE Inf(a.neg # b.neg))
    ELSE IF IsZero(a) THEN Zero(a.neg # b.neg)
    ELSE QuotFin[a.neg # b.neg,
                 LongDiv[Shl[a.m, DivShift], b.m],
                 a.e - b.e - DivShift]

\* s in lower case, for the letters of inf, infinity and nan
Lower(s) ==
    [k \in 1..Len(s) |->
        IF s[k] = "I" THEN "i" ELSE IF s[k] = "N" THEN "n"
        ELSE IF s[k] = "F" THEN "f" ELSE IF s[k] = "T" THEN "t"
        ELSE IF s[k] = "Y" THEN "y" ELSE IF s[k] = "A" THEN "a"
        ELSE s[k]]

\* the number of digits s starts with
DigitRun(s) ==
    IF \A k \in 1..Len(s) : s[k] \in Digits THEN Len(s)
    ELSE (CHOOSE k \in 1..Len(s) :
             s[k] \notin Digits /\ \A x \in 1..(k - 1) : s[x] \in Digits) - 1

\* s without its leading zeros
StripZeros(s) ==
    IF \A k \in 1..Len(s) : s[k] = "0" THEN <<>>
    ELSE SubSeq(s, CHOOSE k \in 1..Len(s) :
                      s[k] # "0" /\ \A x \in 1..(k - 1) : s[x] = "0", Len(s))

\* the number of zeros s ends with
ZeroTail(s) ==
    IF \A k \in 1..Len(s) : s[k] = "0" THEN Len(s)
    ELSE Len(s) - (CHOOSE k \in 1..Len(s) :
                      s[k] # "0" /\ \A x \in (k + 1)..Len(s) : s[x] = "0")

\* float() rejects a literal with more than MaxDigits digits after its
\* leading zeros, or more than MaxDigits digits after the point
MaxDigits == 1000000000

\* float() takes an exponent of more than 9 significant digits as ExpCap;
\* with at most MaxDigits digits such a number is 0 or an infinity
ExpCap == 1100000000

\* the value of the exponent digits: exact up to 9 significant digits
ExpVal(s) ==
    IF Len(StripZeros(s)) > 9 THEN ExpCap ELSE DigitsVal(StripZeros(s), 0)

\* 10^MaxDec10 overflows, 10^MinDec10 rounds to 0
MaxDec10 == 309

MinDec10 == -324

\* the double nearest to (-1)^neg * sig * 10^e10, sig being decimal digits
\* that do not start with 0
DecimalOf[neg \in BOOLEAN, sig \in Seq(Digits), e10 \in Int] ==
    IF sig = <<>> THEN Zero(neg)
    ELSE IF Len(sig) + e10 > MaxDec10 THEN Inf(neg)
    ELSE IF Len(sig) + e10 <= MinDec10 THEN Zero(neg)
    ELSE IF e10 >= 0 THEN Round[neg, MulPow10[FromDigits[sig], e10], 0, FALSE]
    ELSE QuotFin[neg,
                 DivPow10[<<0>> \o Shl[FromDigits[sig], 64 - 4 * e10], 0 - e10],
                 4 * e10 - 64]

BadFloat == [ok |-> FALSE, v |-> NaN]

GoodFloat(x) == [ok |-> TRUE, v |-> x]

\* the value of the digit string `digs` with nF of its digits after the point
\* and the exponent ex; the zeros the digits end with go to the exponent
Decimal(neg, digs, nF, ex) ==
    IF Len(StripZeros(digs)) > MaxDigits \/ nF > MaxDigits THEN BadFloat
    ELSE GoodFloat(DecimalOf[neg,
                             SubSeq(StripZeros(digs), 1,
                                    Len(StripZeros(digs)) - ZeroTail(StripZeros(digs))),
                             ex - nF + ZeroTail(StripZeros(digs))])

\* a literal read: k is "bad" for a string that is no float literal, "inf"
\* or "nan", or "fin" for a decimal with its digits, how many of them follow
\* the point, and its exponent
Literal(k, neg, digs, nF, ex) ==
    [k |-> k, neg |-> neg, digs |-> digs, nF |-> nF, ex |-> ex]

\* the exponent: [sign] digits
FloatExponent(neg, digs, nF, r) ==
    IF r # <<>> /\ Head(r) \in {"-", "+"}
    THEN (IF AllDigits(Tail(r))
          THEN Literal("fin", neg, digs, nF,
                       IF Head(r) = "-" THEN 0 - ExpVal(Tail(r)) ELSE ExpVal(Tail(r)))
          ELSE Literal("bad", neg, <<>>, 0, 0))
    ELSE IF AllDigits(r) THEN Literal("fin", neg, digs, nF, ExpVal(r))
    ELSE Literal("bad", neg, <<>>, 0, 0)

\* what follows the digits: nothing, or e | E and an exponent
FloatTail(neg, digs, nF, r) ==
    IF digs = <<>> THEN Literal("bad", neg, <<>>, 0, 0)
    ELSE IF r = <<>> THEN Literal("fin", neg, digs, nF, 0)
    ELSE IF Head(r) \in {"e", "E"} THEN FloatExponent(neg, digs, nF, Tail(r))
    ELSE Literal("bad", neg, <<>>, 0, 0)

\* digits [. digits] [exponent]
FloatMantissa(neg, s) ==
    LET n == DigitRun(s)
        f == IF n < Len(s) /\ s[n + 1] = "."
             THEN DigitRun(SubSeq(s, n + 2, Len(s))) ELSE 0
        r == IF n < Len(s) /\ s[n + 1] = "." THEN n + 1 + f ELSE n
    IN  FloatTail(neg, SubSeq(s, 1, n) \o SubSeq(s, n + 2, n + 1 + f), f,
                  SubSeq(s, r + 1, Len(s)))

\* inf, infinity and nan in any case, or a decimal
FloatUnsigned(neg, s) ==
    IF Lower(s) \in {<<"i", "n", "f">>,
                     <<"i", "n", "f", "i", "n", "i", "t", "y">>}
    THEN Literal("inf", neg, <<>>, 0, 0)
    ELSE IF Lower(s) = <<"n", "a", "n">> THEN Literal("nan", neg, <<>>, 0, 0)
    ELSE FloatMantissa(neg, s)

\* [sign] and the rest
FloatSigned(t) ==
    FloatUnsigned(t # <<>> /\ Head(t) = "-",
                  IF t # <<>> /\ Head(t) \in {"-", "+"} THEN Tail(t) ELSE t)

\* the double a literal stands for
LiteralValue(l) ==
    IF l.k = "bad" THEN BadFloat
    ELSE IF l.k = "inf" THEN GoodFloat(Inf(l.neg))
    ELSE IF l.k = "nan" THEN GoodFloat(NaN)
    ELSE Decimal(l.neg, l.digs, l.nF, l.ex)

\* float(tok): surrounding whitespace is ignored; [sign] digits [. digits]
\* [e [sign] digits], with a digit before or after the point, or
\* [sign] inf | infinity | nan in any case; ok is FALSE when float() raises
\* ValueError
ParseFloat(tok) == LiteralValue(FloatSigned(Strip(tok)))

-----------------------------------------------------------------------------
(* _crust2_get_codec *)

\* [l.strip() for l in f.readlines()[5:] if l.strip()]
RECURSIVE NonBlank(_)
NonBlank(ls) ==
    IF ls = <<>> THEN <<>>
    ELSE IF Strip(Head(ls)) = <<>> THEN NonBlank(Tail(ls))
         ELSE <<Strip(Head(ls))>> \o NonBlank(Tail(ls))

LegendLines(raw) == NonBlank(SubSeq(raw, 6, Len(raw)))

\* [float(v)*1000 for v in toks]; ok is FALSE when float() raises ValueError
Scaled(toks) ==
    [ok |-> \A k \in 1..Len(toks) : ParseFloat(toks[k]).ok,
     v  |-> [k \in 1..Len(toks) |-> Times1000(ParseFloat(toks[k]).v)]]

\* the slice [:7] of the thickness tokens
ThicknessTokens(line) == Prefix(Split(line), 7)

\* the tokens kept of a Vp, Vs or density line
ValueTokens(line) == Split(line)

\* len(lines)/5 (Python 2 integer division)
NumGroups(lines) == Len(lines) \div 5

\* codec[code] = {...}: a later group with the same code replaces the earlier
Put(d, key, val) == [c \in (DOMAIN d) \cup {key} |-> IF c = key THEN val ELSE d[c]]

EmptyDict == [c \in {} |-> 0]

\* iterations g .. NumGroups-1 of the loop of _crust2_get_codec
RECURSIVE CodecLoop(_, _, _)
CodecLoop(lines, g, acc) ==
    IF g >= NumGroups(lines) THEN [ok |-> TRUE, codec |-> acc]
    ELSE LET code      == Prefix(lines[g*5 + 1], 2)
             vp        == Scaled(ValueTokens(lines[g*5 + 2]))
             vs        == Scaled(ValueTokens(lines[g*5 + 3]))
             density   == Scaled(ValueTokens(lines[g*5 + 4]))
             thickness == Scaled(ThicknessTokens(lines[g*5 + 5]))
         IN  IF vp.ok /\ vs.ok /\ density.ok /\ thickness.ok
             THEN CodecLoop(lines, g + 1,
                     Put(acc, code, [vp |-> vp.v, vs |-> vs.v,
                                     density |-> density.v,
                                     thickness |-> thickness.v]))
             ELSE [ok |-> FALSE, codec |-> acc]

\* _crust2_get_codec applied to the raw lines of CNtype2_key.txt
Crust2GetCodec(raw) == CodecLoop(LegendLines(raw), 0, EmptyDict)

-----------------------------------------------------------------------------
(* crust2_to_tesseroids: the grid and the cell loop *)

size == 2

LonStart == -180

LonStop == 180

LatStart == 90

LatStop == -90

NLayers == 7

\* len(numpy.arange(-180, 180, size))
NLons == (LonStop - LonStart) \div size

\* len(numpy.arange(90, -90, -size))
NLats == (LatStart - LatStop) \div size

\* lons[jj]
Lons(jj) == LonStart + size * jj

\* variant: latitudes ascending from the south
LatsAscending(ii) == LatStop + size * ii

\* lats[ii]
Lats(ii) == LatStart - size * ii

\* A 90 x 180 matrix is held as the cells that differ from a default value
At(g, ii, jj) ==
    IF <<ii, jj>> \in DOMAIN g.cells THEN g.cells[<<ii, jj>>] ELSE g.default

\* Tesseroid(w, e, s, n, top, bottom, props)
Tesseroid(w, e, s, n, top, bottom, props) ==
    [w |-> w, e |-> e, s |-> s, n |-> n, top |-> top, bottom |-> bottom,
     props |-> props]

\* variant: placeholder layers are not skipped
SkipNone(th) == FALSE

\* the test of line 91 that skips a layer
SkipLayer(th) == Eq[th, Num(0)]

\* the element built on lines 93-98 for `layer` (0-based) of cell (ii, jj)
LayerElement(entry, ii, jj, layer, top) ==
    Tesseroid(Lons(jj), Lons(jj) + size, Lats(ii) - size, Lats(ii),
              top, Sub(top, entry.thickness[layer + 1]),
              [density |-> entry.density[layer + 1],
               vp |-> entry.vp[layer + 1],
               vs |-> entry.vs[layer + 1]])

\* `for layer in xrange(7)` from `layer` on, for a cell of type t:
\* err names the exception that ends it, elems the elements appended
RECURSIVE LayerLoop(_, _, _, _, _, _, _)
LayerLoop(cdc, t, ii, jj, layer, top, acc) ==
    IF layer >= NLayers THEN [err |-> "none", elems |-> acc]
    ELSE IF t \notin DOMAIN cdc THEN [err |-> "KeyError", elems |-> acc]
    ELSE IF Len(cdc[t].thickness) <= layer THEN [err |-> "IndexError", elems |-> acc]
    ELSE IF SkipLayer(cdc[t].thickness[layer + 1])
         THEN LayerLoop(cdc, t, ii, jj, layer + 1, top, acc)
    ELSE IF \/ Len(cdc[t].density) <= layer
            \/ Len(cdc[t].vp) <= layer
            \/ Len(cdc[t].vs) <= layer
         THEN [err |-> "IndexError", elems |-> acc]
    ELSE LET el == LayerElement(cdc[t], ii, jj, layer, top)
         IN  LayerLoop(cdc, t, ii, jj, layer + 1, el.bottom, Append(acc, el))

\* variant: the running top is carried over from the previous cell
CellLayersCarry(cdc, typ, topo, ii, jj) ==
    LayerLoop(cdc, At(typ, ii, jj), ii, jj, 0,
              IF model = <<>> THEN At(topo, ii, jj) ELSE model[Len(model)].bottom,
              <<>>)

\* variant: a type code missing from the codec is treated as an empty stack
CellLayersLenient(cdc, typ, topo, ii, jj) ==
    IF At(typ, ii, jj) \in DOMAIN cdc
    THEN LayerLoop(cdc, At(typ, ii, jj), ii, jj, 0, At(topo, ii, jj), <<>>)
    ELSE [err |-> "none", elems |-> <<>>]

\* the body of the two `for` loops for cell (ii, jj): top starts at the
\* cell's elevation
CellLayers(cdc, typ, topo, ii, jj) ==
    LayerLoop(cdc, At(typ, ii, jj), ii, jj, 0, At(topo, ii, jj), <<>>)

NoResult == [kind |-> "none"]

Raised(e) == [kind |-> "raised", error |-> e]

Returned(v) == [kind |-> "returned", value |-> v]

EmptyGrid == [cells |-> [c \in {} |-> 0], default |-> Num(0)]

\* line 74: archive = tarfile.open(fname, 'r:gz')
OpenArchive ==
    /\ call = "crust2_to_tesseroids" /\ pc = "start"
    /\ handles' = handles \cup {"archive"}
    /\ pc' = "topo"
    /\ UNCHANGED <<call, archive, topogrd, codec, types, i, j, model,
                   sfile, hdr, grd, result>>

\* line 76 and _crust2_get_topo
GetTopo ==
    /\ call = "crust2_to_tesseroids" /\ pc = "topo"
    /\ handles' = handles \cup {"CNelevatio2.txt"}
    /\ topogrd' = archive.topo
    /\ pc' = "codec"
    /\ UNCHANGED <<call, archive, codec, types, i, j, model,
                   sfile, hdr, grd, result>>

\* line 78 and _crust2_get_codec; also the direct call of _crust2_get_codec
GetCodec ==
    /\ \/ call = "crust2_to_tesseroids" /\ pc = "codec"
       \/ call = "_crust2_get_codec" /\ pc = "start"
    /\ handles' = handles \cup {"CNtype2_key.txt"}
    /\ LET r == Crust2GetCodec(archive.key)
       IN  IF r.ok
           THEN /\ codec' = r.codec
                /\ IF call = "_crust2_get_codec"
                   THEN pc' = "returned" /\ result' = Returned(r.codec)
                   ELSE pc' = "types" /\ result' = result
           ELSE /\ codec' = codec
                /\ pc' = "raised" /\ result' = Raised("ValueError")
    /\ UNCHANGED <<call, archive, topogrd, types, i, j, model, sfile, hdr, grd>>

\* line 80 and _crust2_get_types; lines 82-85
GetTypes ==
    /\ call = "crust2_to_tesseroids" /\ pc = "types"
    /\ handles' = handles \cup {"CNtype2.txt"}
    /\ types' = archive.types
    /\ i' = 0 /\ j' = 0 /\ model' = <<>>
    /\ pc' = "loop"
    /\ UNCHANGED <<call, archive, topogrd, codec, sfile, hdr, grd, result>>

\* lines 86-99: one iteration of the inner `for j` loop
Cell ==
    /\ call = "crust2_to_tesseroids" /\ pc = "loop" /\ i < NLats
    /\ LET r == CellLayers(codec, types, topogrd, i, j)
       IN  /\ model' = model \o r.elems
           /\ IF r.err = "none"
              THEN /\ pc' = pc /\ result' = result
                   /\ IF j + 1 < NLons
                      THEN i' = i /\ j' = j + 1
                      ELSE i' = i + 1 /\ j' = 0
              ELSE /\ pc' = "raised" /\ result' = Raised(r.err)
                   /\ UNCHANGED <<i, j>>
    /\ UNCHANGED <<call, handles, archive, topogrd, codec, types, sfile, hdr, grd>>

\* line 100: return model
ReturnModel ==
    /\ call = "crust2_to_tesseroids" /\ pc = "loop" /\ i >= NLats
    /\ pc' = "returned" /\ result' = Returned(model)
    /\ UNCHANGED <<call, handles, archive, topogrd, codec, types, i, j, model,
                   sfile, hdr, grd>>

-----------------------------------------------------------------------------
(* Input files *)

DigitChar == <<"0", "1", "2", "3", "4", "5", "6", "7", "8", "9">>

\* the decimal text of an integer
RECURSIVE NumStr(_)
NumStr(n) ==
    IF n < 0 THEN <<"-">> \o NumStr(0 - n)
    ELSE IF n < 10 THEN <<DigitChar[n + 1]>>
    ELSE NumStr(n \div 10) \o <<DigitChar[(n % 10) + 1]>>

\* a line of tokens, each after `sep`, ended by a blank and the newline
RECURSIVE TokLineSep(_, _)
TokLineSep(toks, sep) ==
    IF toks = <<>> THEN <<" ", "\n">>
    ELSE sep \o Head(toks) \o TokLineSep(Tail(toks), sep)

TokLine(toks) == TokLineSep(toks, <<" ">>)

\* a line of integers
NumLineSep(vals, sep) == TokLineSep([k \in 1..Len(vals) |-> NumStr(vals[k])], sep)

NumLine(vals) == NumLineSep(vals, <<" ">>)

\* the 5-line header of CNtype2_key.txt
LegendHeader ==
    << <<"k", "e", "y", "\n">>, <<"1", " ", "2", "\n">>, <<"\n">>,
       <<"v", "p", "\r", "\n">>, <<"-", "-", "\n">> >>

\* the five lines of one type code
Group(code, vp, vs, rho, th) ==
    << code \o <<" ", "x", "\n">>, NumLine(vp), NumLineSep(vs, <<" ", "\t">>),
       NumLine(rho), NumLine(th) >>

CodeA == <<"A", "0">>

CodeB == <<"B", "1">>

CodeZ == <<"Z", "9">>

CodeX == <<"X", "X">>

Vp8 == <<1, 2, 3, 4, 5, 6, 7, 8>>

Vs8 == <<0, 1, 1, 2, 2, 3, 3, 4>>

Rho8 == <<1, 1, 2, 2, 3, 3, 3, 4>>

\* layers 1, 4 and 6 present, the others are placeholders
ThA == <<0, 2, 0, 0, 3, 0, 1, 9>>

\* a negative thickness on layer 2
ThB == <<1, 0, -2, 0, 0, 0, 0, 9>>

\* thicknesses with decimals: 0.07 km, a negative one, placeholders written
\* as 0, -0.0, 0e0 and a number that underflows to 0, the mantle being inf
ThToksB == << <<"0", ".", "0", "7">>, <<"0">>, <<"-", "2", ".", "0", "1">>, <<"-", "0", ".", "0">>, <<"0">>, <<"0", "e", "0">>, <<"1", "e", "-", "4", "0", "0">>, <<"i", "n", "f">> >>

\* velocities with decimals
VpToksB == << <<"2", ".", "0", "1">>, <<"+", "2">>, <<"3", ".", "2", "5">>, <<"4">>, <<"5", "e", "0">>, <<"6", ".", "5">>, <<"7">>, <<"8", ".", "1">> >>

GroupA == Group(CodeA, Vp8, Vs8, Rho8, ThA)

GroupB ==
    << CodeB \o <<"\t", "b", "\r", "\n">>, TokLine(VpToksB),
       TokLineSep([k \in 1..8 |-> NumStr(Vs8[k])], <<"\f", "">>),
       NumLine(Rho8), TokLine(ThToksB) >>

\* a type without layers
GroupZ == Group(CodeZ, Vp8, Vs8, Rho8, <<0, 0, 0, 0, 0, 0, 0, 9>>)

CodeC == <<"C", "3">>

CodeN == <<"N", "7">>

\* a group whose thickness line holds the tokens toks
GroupT(code, toks) ==
    << code \o <<"\n">>, NumLine(Vp8), NumLine(Vs8), NumLine(Rho8), TokLine(toks) >>

\* a legend of five type codes, with a blank line between groups: C3 has
\* thicknesses of 70, 2010, 100 and 200 m written in km, N7 an infinite
\* thickness and one that is not a number
LegendFull ==
    LegendHeader \o GroupA \o << <<" ", "\r", "\n">> >> \o GroupB \o GroupZ
    \o GroupT(CodeC, << <<"0", ".", "0", "7">>, <<"2", ".", "0", "1">>, <<"0">>,
                        <<"0">>, <<"0", ".", "1">>, <<"0">>, <<"0", ".", "2">>,
                        <<"9">> >>)
    \o GroupT(CodeN, << <<"i", "n", "f">>, <<"5">>, <<"n", "a", "n">>, <<"0">>,
                        <<"0">>, <<"0">>, <<"0">>, <<"9">> >>)

\* a legend with a token float() rejects
LegendBad ==
    LegendHeader \o GroupA
    \o << CodeB \o <<"\n">>, NumLine(Vp8), <<"1", " ", "1", "e", "\n">>,
          NumLine(Rho8), NumLine(ThB) >>

\* the row-major position p as a cell
CellOf(p) == <<p \div NLons, p % NLons>>

\* where the two varied cells start: the end of the first row (cells (0, 179)
\* and (1, 0)), across the equator and the Greenwich meridian, the end of the
\* grid
WindowStarts == {NLons - 1, 45 * NLons + 89, NLats * NLons - 2}

\* elevations as CNelevatio2.txt may write them
ElevationToks == << <<"0", ".", "1">>, <<"8", "8", "4", "8">>, <<"-", "0", ".", "3">> >>

Elevation(k) == ParseFloat(ElevationToks[(k % Len(ElevationToks)) + 1]).v

\* the archives explored: every cell has type Z9 and elevation 0 except two
\* consecutive cells
Archives ==
    { [key   |-> LegendFull,
       topo  |-> [cells |-> (CellOf(p) :> Elevation(k)) @@ (CellOf(p + 1) :> Num(-4000)),
                  default |-> Num(0)],
       types |-> [cells |-> (CellOf(p) :> t[1]) @@ (CellOf(p + 1) :> t[2]),
                  default |-> CodeZ]] :
        p \in WindowStarts, k \in 0..MaxTopo,
        t \in ({CodeA, CodeB, CodeX} \X {CodeA, CodeX})
                 \cup ({CodeC, CodeN} \X {CodeA}) }
    \cup
    \* legends that stop the call early: a bad token, a short thickness line,
    \* short Vp, Vs and density lines
    { [key   |-> l,
       topo  |-> [cells |-> [c \in {} |-> 0], default |-> Num(0)],
       types |-> [cells |-> [c \in {} |-> 0], default |-> CodeA]] :
        l \in { LegendBad,
                LegendHeader \o Group(CodeA, Vp8, Vs8, Rho8, SubSeq(ThA, 1, 6)),
                LegendHeader \o Group(CodeA, SubSeq(Vp8, 1, 6), SubSeq(Vs8, 1, 6),
                                      SubSeq(Rho8, 1, 6), ThA) } }

NoSurfer == <<>>

NoHdr ==
    [nx |-> 0, ny |-> 0, xmin |-> Num(0), xmax |-> Num(0), ymin |-> Num(0),
     ymax |-> Num(0)]

NoGrd == [ndim |-> 0, rows |-> <<>>]

Locals0 ==
    /\ pc = "start"
    /\ handles = {}
    /\ topogrd = EmptyGrid
    /\ codec = EmptyDict
    /\ types = EmptyGrid
    /\ i = 0 /\ j = 0
    /\ model = <<>>
    /\ hdr = NoHdr
    /\ grd = NoGrd
    /\ result = NoResult

\* a call of crust2_to_tesseroids
InitCrust ==
    /\ call = "crust2_to_tesseroids"
    /\ archive \in Archives
    /\ sfile = NoSurfer
    /\ Locals0

NextCrust == OpenArchive \/ GetTopo \/ GetCodec \/ GetTypes \/ Cell \/ ReturnModel

SpecCrust == InitCrust /\ [][NextCrust]_vars

-----------------------------------------------------------------------------
(* A direct call of _crust2_get_codec *)

\* the first n of eight values / n values (the ninth is 5)
Take(vals, n) == [k \in 1..n |-> IF k <= Len(vals) THEN vals[k] ELSE 5]

\* a group whose Vp, Vs and density lines hold n values and whose thickness
\* line holds m values
GroupNM(code, th, n, m) ==
    Group(code, Take(Vp8, n), Take(Vs8, n), Take(Rho8, n), Take(th, m))

TokenCounts == {6, 7, 8, 9}

\* tr lines appended after the last complete group
Trailing(tr) == [k \in 1..tr |-> GroupZ[((k - 1) % 5) + 1]]

Legends ==
    { LegendHeader \o GroupNM(CodeA, ThA, n, m) \o Trailing(tr) :
        n \in TokenCounts, m \in TokenCounts, tr \in 0..MaxTrail }
    \cup
    { LegendHeader \o GroupNM(CodeA, ThA, 8, 8) \o << <<"\t", " ", "\n">> >>
        \o GroupNM(CodeB, ThB, n, m) \o Trailing(tr) :
        n \in TokenCounts, m \in TokenCounts, tr \in 0..MaxTrail }
    \cup
    { LegendHeader \o Trailing(tr) : tr \in 0..MaxTrail }
    \cup
    { LegendBad, LegendFull }

InitCodec ==
    /\ call = "_crust2_get_codec"
    /\ archive \in { [key |-> l, topo |-> EmptyGrid, types |-> EmptyGrid] : l \in Legends }
    /\ sfile = NoSurfer
    /\ pc = "start"
    /\ handles = {"archive"}
    /\ topogrd = EmptyGrid
    /\ codec = EmptyDict
    /\ types = EmptyGrid
    /\ i = 0 /\ j = 0
    /\ model = <<>>
    /\ hdr = NoHdr
    /\ grd = NoGrd
    /\ result = NoResult

NextCodec == GetCodec

SpecCodec == InitCodec /\ [][NextCodec]_vars

-----------------------------------------------------------------------------
(* load_surfer *)

\* the no-data threshold 1.70141e+38 of line 206
NullThreshold == Decimal(FALSE, <<"1", "7", "0", "1", "4", "1">>, 5, 38).v

\* file.readline() for the k-th line; '' at end of file. A file is the
\* sequence of its lines: each ends with its only newline, which the last
\* line may lack
ReadLine(f, k) == IF k <= Len(f) THEN f[k] ELSE <<>>

\* `nx, ny = nxny.split()` and int() of both: ok is FALSE when the
\* unpacking or a conversion raises ValueError
TwoInts(line) ==
    LET t == Split(line)
    IN  IF Len(t) = 2 /\ IsInt(t[1]) /\ IsInt(t[2])
        THEN [ok |-> TRUE, a |-> IntVal(t[1]), b |-> IntVal(t[2])]
        ELSE [ok |-> FALSE, a |-> 0, b |-> 0]

\* `lo, hi = line.split()` and numpy.double() of both
TwoFloats(line) ==
    LET t == Split(line)
    IN  IF Len(t) = 2 /\ ParseFloat(t[1]).ok /\ ParseFloat(t[2]).ok
        THEN [ok |-> TRUE, a |-> ParseFloat(t[1]).v, b |-> ParseFloat(t[2]).v]
        ELSE [ok |-> FALSE, a |-> NaN, b |-> NaN]

\* genfromtxt drops what follows the comment character '#'
RECURSIVE StripComment(_)
StripComment(line) ==
    IF line = <<>> \/ Head(line) = "#" THEN <<>>
    ELSE <<Head(line)>> \o StripComment(Tail(line))

\* the token rows numpy.genfromtxt reads: comments are removed and lines
\* left empty are dropped
RECURSIVE TokenRows(_)
TokenRows(ls) ==
    IF ls = <<>> THEN <<>>
    ELSE IF Split(StripComment(Head(ls))) = <<>> THEN TokenRows(Tail(ls))
         ELSE <<Split(StripComment(Head(ls)))>> \o TokenRows(Tail(ls))

\* skip_header=5
BodyRows(f) == TokenRows(SubSeq(f, 6, Len(f)))

\* genfromtxt turns a token float() rejects into nan
CellOfToken(tok) == IF ParseFloat(tok).ok THEN ParseFloat(tok).v ELSE NaN

\* numpy.genfromtxt(fname, skip_header=5): rows of unequal length raise
\* ValueError; a single row or a single column gives a 1-d array
GenFromTxt(f) ==
    LET rows == BodyRows(f)
    IN  IF \E r \in 1..Len(rows) : Len(rows[r]) # Len(rows[1])
        THEN [ok |-> FALSE, ndim |-> 0, rows |-> <<>>]
        ELSE [ok |-> TRUE,
              ndim |-> IF Len(rows) >= 2 /\ Len(rows[1]) >= 2 THEN 2 ELSE 1,
              rows |-> [r \in 1..Len(rows) |->
                          [c \in 1..Len(rows[r]) |-> CellOfToken(rows[r][c])]]]

\* variant: the threshold is exclusive
IsNullStrict(cell) == Less[NullThreshold, cell]

\* the test of line 206
IsNull(cell) == Geq(cell, NullThreshold)

\* lines 206-207 on a 2-d array
MaskNull(rows) ==
    [r \in 1..Len(rows) |->
        [c \in 1..Len(rows[r]) |->
            IF IsNull(rows[r][c]) THEN NaN ELSE rows[r][c]]]

\* arange(0, n) scaled in numpy.linspace: by step = delta / (n - 1), or by
\* 1 / (n - 1) and then delta when the step is 0; by delta alone when n = 1
LinScaled(k, n, delta) ==
    IF n = 1 THEN Mul[Num(k), delta]
    ELSE IF Eq[Div[delta, Num(n - 1)], Num(0)]
    THEN Mul[Div[Num(k), Num(n - 1)], delta]
    ELSE Mul[Num(k), Div[delta, Num(n - 1)]]

\* numpy.linspace(lo, hi, num=n): lo + k * step, and hi itself at the end
Linspace(lo, hi, n) ==
    [k \in 1..n |->
        IF n > 1 /\ k = n THEN hi
        ELSE Add(LinScaled(k - 1, n, Sub(hi, lo)), lo)]

SurferStep(next) ==
    /\ pc' = next
    /\ UNCHANGED <<call, archive, topogrd, codec, types, i, j, model, sfile>>

SurferRaise(e) ==
    /\ pc' = "raised" /\ result' = Raised(e)
    /\ UNCHANGED <<call, handles, archive, topogrd, codec, types, i, j, model,
                   sfile, hdr, grd>>

\* line 178: ftext = open(fname, "r")
OpenSurfer ==
    /\ call = "load_surfer" /\ pc = "start"
    /\ handles' = handles \cup {"ftext"}
    /\ SurferStep("id")
    /\ UNCHANGED <<hdr, grd, result>>

\* line 180: id = ftext.readline()
ReadId ==
    /\ call = "load_surfer" /\ pc = "id"
    /\ SurferStep("nxny")
    /\ UNCHANGED <<handles, hdr, grd, result>>

\* lines 183-185
ReadNxNy ==
    /\ call = "load_surfer" /\ pc = "nxny"
    /\ LET r == TwoInts(ReadLine(sfile, 2))
       IN  IF r.ok
           THEN /\ hdr' = [hdr EXCEPT !.nx = r.a, !.ny = r.b]
                /\ SurferStep("xlim")
                /\ UNCHANGED <<handles, grd, result>>
           ELSE SurferRaise("ValueError")

\* lines 188-190
ReadXlim ==
    /\ call = "load_surfer" /\ pc = "xlim"
    /\ LET r == TwoFloats(ReadLine(sfile, 3))
       IN  IF r.ok
           THEN /\ hdr' = [hdr EXCEPT !.xmin = r.a, !.xmax = r.b]
                /\ SurferStep("ylim")
                /\ UNCHANGED <<handles, grd, result>>
           ELSE SurferRaise("ValueError")

\* lines 193-195
ReadYlim ==
    /\ call = "load_surfer" /\ pc = "ylim"
    /\ LET r == TwoFloats(ReadLine(sfile, 4))
       IN  IF r.ok
           THEN /\ hdr' = [hdr EXCEPT !.ymin = r.a, !.ymax = r.b]
                /\ SurferStep("zlim")
                /\ UNCHANGED <<handles, grd, result>>
           ELSE SurferRaise("ValueError")

\* lines 198-200: zmin and zmax are parsed and dropped
ReadZlim ==
    /\ call = "load_surfer" /\ pc = "zlim"
    /\ LET r == TwoFloats(ReadLine(sfile, 5))
       IN  IF r.ok
           THEN /\ SurferStep("close")
                /\ UNCHANGED <<handles, hdr, grd, result>>
           ELSE SurferRaise("ValueError")

\* line 202: ftext.close()
CloseSurfer ==
    /\ call = "load_surfer" /\ pc = "close"
    /\ handles' = handles \ {"ftext"}
    /\ SurferStep("genfromtxt")
    /\ UNCHANGED <<hdr, grd, result>>

\* line 204; genfromtxt opens and closes the file by itself
LoadBody ==
    /\ call = "load_surfer" /\ pc = "genfromtxt"
    /\ LET g == GenFromTxt(sfile)
       IN  IF g.ok
           THEN /\ grd' = [ndim |-> g.ndim, rows |-> g.rows]
                /\ SurferStep("mask")
                /\ UNCHANGED <<handles, hdr, result>>
           ELSE SurferRaise("ValueError")

\* lines 206-207: `i,j = numpy.where(...)` needs a 2-d array
Mask ==
    /\ call = "load_surfer" /\ pc = "mask"
    /\ IF grd.ndim = 2
       THEN /\ grd' = [grd EXCEPT !.rows = MaskNull(grd.rows)]
            /\ SurferStep("axes")
            /\ UNCHANGED <<handles, hdr, result>>
       ELSE SurferRaise("ValueError")

\* lines 210-213
ReturnSurfer ==
    /\ call = "load_surfer" /\ pc = "axes"
    /\ IF hdr.nx >= 0 /\ hdr.ny >= 0
       THEN /\ result' = Returned([xc  |-> Linspace(hdr.xmin, hdr.xmax, hdr.nx),
                                   yr  |-> Linspace(hdr.ymin, hdr.ymax, hdr.ny),
                                   grd |-> grd.rows])
            /\ SurferStep("returned")
            /\ UNCHANGED <<handles, hdr, grd>>
       ELSE SurferRaise("ValueError")

-----------------------------------------------------------------------------
(* Surfer grid files *)

\* body values: zero, below the threshold, the threshold, above it, a
\* negative decimal, a decimal below 1.70141e38 that float() rounds to it,
\* and nan
BodyVals == << <<"0">>, <<"1", ".", "7", "0", "1", "4", "e", "3", "8">>, <<"1", ".", "7", "0", "1", "4", "1", "e", "+", "3", "8">>, <<"2", "E", "3", "8">>, <<"-", "7", ".", "5">>, <<"1", ".", "7", "0", "1", "4", "0", "9", "9", "9", "9", "9", "9", "9", "9", "9", "9", "9", "9", "9", "9", "9", "9", "e", "3", "8">>, <<"n", "a", "N">> >>

\* the value written at row r, column c of the body of pattern s
BodyVal(r, c, s) == BodyVals[((3 * (r - 1) + (c - 1) + s) % Len(BodyVals)) + 1]

\* a body of R rows and C columns
Body(R, C, s) == [r \in 1..R |-> TokLine([c \in 1..C |-> BodyVal(r, c, s)])]

IdLine == <<"D", "S", "A", "A", "\r", "\n">>

\* the line with a comment before its newline
WithComment(line) == SubSeq(line, 1, Len(line) - 1) \o <<"#", " ", "1", "\n">>

\* the five header lines; the first and the last end with '\r\n'
GoodHeader(nx, ny) ==
    << IdLine, NumLine(<<nx, ny>>), TokLine(<< <<"0", ".", "5">>, <<"2">> >>),
       NumLine(<<-1, 1>>), <<"\t", "0", "\t", "9", ".", " ", "\r", "\n">> >>

Dims == 1..MaxDim

SurferFiles ==
    \* well-formed headers over bodies of every shape
    { GoodHeader(nx, ny) \o Body(R, C, s) :
        nx \in Dims, ny \in Dims, R \in Dims, C \in Dims,
        s \in 0..(Len(BodyVals) - 1) }
    \cup
    \* a body token that is not a number, a comment after the values, and a
    \* blank line and a comment line inside the body
    { GoodHeader(C, R)
        \o << WithComment(<<"x">> \o NumLine([c \in 1..(C - 1) |-> 0])),
              <<" ", "\n">>, <<" ", "#", " ", "c", "\n">> >>
        \o Body(R - 1, C, 1) : R \in Dims \ {1}, C \in Dims \ {1} }
    \cup
    \* rows of unequal length
    { GoodHeader(2, 3) \o Body(2, 2, 0) \o Body(1, 3, 0) }
    \cup
    \* header lines that do not hold two numbers
    { << IdLine, l >> \o SubSeq(GoodHeader(2, 2), 3, 5) \o Body(2, 2, s) :
        l \in { NumLine(<<2>>), NumLine(<<2, 2, 2>>), <<"2", " ", "y", "\n">>,
                <<"2", ".", "0", " ", "2", "\n">> },
        s \in 0..1 }
    \cup
    { SubSeq(GoodHeader(2, 2), 1, k - 1) \o << NumLine(<<4>>) >>
        \o SubSeq(GoodHeader(2, 2), k + 1, 5) \o Body(2, 2, 0) : k \in 3..5 }
    \cup
    \* limits that are not finite, or not binary fractions
    { << IdLine, NumLine(<<3, 2>>), l, NumLine(<<-1, 1>>),
         TokLine(<< <<"0">>, <<"9">> >>) >> \o Body(2, 3, 0) :
        l \in { TokLine(<< <<"-", "i", "n", "f">>, <<"1">> >>),
                TokLine(<< <<"n", "a", "n">>, <<"I", "n", "f">> >>),
                TokLine(<< <<"0", ".", "1">>, <<"0", ".", "3">> >>),
                TokLine(<< <<"5", "e", "-", "3", "2", "4">>, <<"0">> >>) } }
    \cup
    \* a file that ends inside the header
    { SubSeq(GoodHeader(2, 2), 1, k) : k \in 0..4 }

InitSurfer ==
    /\ call = "load_surfer"
    /\ sfile \in SurferFiles
    /\ archive = [key |-> <<>>, topo |-> EmptyGrid, types |-> EmptyGrid]
    /\ Locals0

NextSurfer ==
    \/ OpenSurfer \/ ReadId \/ ReadNxNy \/ ReadXlim \/ ReadYlim \/ ReadZlim
    \/ CloseSurfer \/ LoadBody \/ Mask \/ ReturnSurfer

SpecSurfer == InitSurfer /\ [][NextSurfer]_vars

-----------------------------------------------------------------------------
(* Properties of crust2_to_tesseroids *)

InLoop == call = "crust2_to_tesseroids" /\ pc = "loop" /\ i < NLats

\* the elements a step appends to model
NewElems == SubSeq(model', Len(model) + 1, Len(model'))

\* a step that runs the seven layers of cell (i, j) to the end
CellDone == InLoop /\ pc' = "loop" /\ <<i', j'>> # <<i, j>>

CellType == At(types, i, j)

CellTopo == At(topogrd, i, j)

\* a + b and a - b as real numbers, without rounding
ExactAdd(a, b) == SumOf[a, b, TRUE]

ExactSub(a, b) == SumOf[a, Neg(b), TRUE]

\* the sum of top - bottom over the elements es, as a real number
RECURSIVE SpanSum(_)
SpanSum(es) ==
    IF es = <<>> THEN Num(0)
    ELSE ExactAdd(ExactSub(Head(es).top, Head(es).bottom), SpanSum(Tail(es)))

\* the sum of the non-zero thicknesses of layers l.., as a real number
RECURSIVE NonZeroSum(_, _)
NonZeroSum(th, l) ==
    IF l > NLayers THEN Num(0)
    ELSE ExactAdd(th[l], NonZeroSum(th, l + 1))

\* the layers (1-based) of non-zero thickness, in stack order
NonZeroLayers(th) ==
    SelectSeq([l \in 1..NLayers |-> l], LAMBDA l : ~Eq[th[l], Num(0)])

\* the sum of top - bottom over the elements es as Python adds floats: every
\* difference and every partial sum is rounded
RECURSIVE FloatSpanSum(_, _)
FloatSpanSum(es, acc) ==
    IF es = <<>> THEN acc
    ELSE FloatSpanSum(Tail(es), Add(acc, Sub(Head(es).top, Head(es).bottom)))

\* the sum of the thicknesses of layers l.. as Python adds floats
RECURSIVE FloatThicknessSum(_, _, _)
FloatThicknessSum(th, l, acc) ==
    IF l > NLayers THEN acc
    ELSE FloatThicknessSum(th, l + 1, Add(acc, th[l]))

\* the seven layer thicknesses are finite and none is negative
PlainThickness(th) ==
    \A l \in 1..NLayers : th[l].k = "fin" /\ ~Less[th[l], Num(0)]

\* C1 (as claimed), on the cells whose layer thicknesses are finite and not
\* negative: for a cell whose type code is in the codec, the vertical spans
\* (top - bottom) of the elements emitted for it add up to the sum of its
\* non-zero layer thicknesses, the sums being taken as real numbers or in
\* floating point, and the first element emitted for it starts at the cell's
\* own elevation
C1_SpanSum ==
    [][(CellDone /\ CellType \in DOMAIN codec
          /\ PlainThickness(codec[CellType].thickness)) =>
          /\ \/ Eq[SpanSum(NewElems), NonZeroSum(codec[CellType].thickness, 1)]
             \/ Eq[FloatSpanSum(NewElems, Num(0)),
                   FloatThicknessSum(codec[CellType].thickness, 1, Num(0))]
          /\ NewElems # <<>> => NewElems[1].top = CellTopo]_vars

\* the elevation, the thicknesses and the bottoms are finite and no
\* subtraction top - thickness made for the elements es rounded
NoRounding(es, th, nz) ==
    /\ \A l \in 1..NLayers : th[l].k = "fin"
    /\ \A m \in 1..Len(es) :
          /\ es[m].top.k = "fin" /\ es[m].bottom.k = "fin"
          /\ ExactSub(es[m].top, th[nz[m]]) = es[m].bottom

\* C1 (amended): for a cell whose type code is in the codec, one element is
\* emitted per layer whose thickness is not == 0, the first starts at the
\* cell's own elevation, the bottom of every element is the double nearest
\* to its top minus its layer's thickness, and the spans add up to the sum
\* of the non-zero thicknesses when all these numbers are finite and none
\* of the subtractions rounds
C1_BottomRounded ==
    [][(CellDone /\ CellType \in DOMAIN codec) =>
          LET th == codec[CellType].thickness
              nz == NonZeroLayers(codec[CellType].thickness)
          IN  /\ Len(NewElems) = Len(nz)
              /\ NewElems # <<>> => NewElems[1].top = CellTopo
              /\ \A m \in 1..Len(NewElems) :
                    NewElems[m].bottom = Sub(NewElems[m].top, th[nz[m]])
              /\ NoRounding(NewElems, th, nz) =>
                    Eq[SpanSum(NewElems), NonZeroSum(th, 1)]]_vars

\* a cell of positive thicknesses (type C3, four layers) at elevation 0.1
\* started at its own elevation and its first subtraction rounded; the next
\* cell then emitted its three layers from its own elevation, without
\* rounding
C1_Witness ==
    /\ call = "crust2_to_tesseroids" /\ pc = "loop"
    /\ Len(model) >= 7
    /\ CodeC \in DOMAIN codec
    /\ model[Len(model) - 6].top = Elevation(0)
    /\ model[Len(model) - 6].bottom =
          Sub(Elevation(0), codec[CodeC].thickness[1])
    /\ model[Len(model) - 6].bottom #
          ExactSub(Elevation(0), codec[CodeC].thickness[1])
    /\ model[Len(model) - 3].top = model[Len(model) - 4].bottom
    /\ model[Len(model) - 3].bottom # Num(-4000)
    /\ model[Len(model) - 2].top = Num(-4000)
    /\ model[Len(model)].bottom = Num(-4000 - 6000)

\* C2: a zero-thickness layer emits nothing and leaves the running top alone:
\* a cell emits exactly one element per non-zero layer, in stack order, and
\* each starts where the previous element of the cell ended (the first at the
\* cell's elevation)
C2_ZeroLayersSkipped ==
    [][(CellDone /\ CellType \in DOMAIN codec) =>
          LET nz == NonZeroLayers(codec[CellType].thickness)
          IN  /\ Len(NewElems) = Len(nz)
              /\ \A m \in 1..Len(NewElems) :
                    /\ NewElems[m].props.vp = codec[CellType].vp[nz[m]]
                    /\ NewElems[m].top =
                          IF m = 1 THEN CellTopo ELSE NewElems[m - 1].bottom]_vars

\* a cell of type A0 (layers 1, 4 and 6 present) has been completed
C2_Witness ==
    /\ call = "crust2_to_tesseroids" /\ pc = "loop"
    /\ Len(model) >= 3
    /\ model[Len(model) - 2].props.vp = Num(2000)
    /\ model[Len(model) - 1].props.vp = Num(5000)
    /\ model[Len(model)].props.vp = Num(7000)
    /\ model[Len(model) - 1].top = model[Len(model) - 2].bottom

\* C3 (as claimed): every emitted element comes from a layer of thickness
\* > 0, so its bottom lies strictly below its top
C3_BottomBelowTop ==
    call = "crust2_to_tesseroids" =>
        \A k \in 1..Len(model) : Less[model[k].bottom, model[k].top]

\* C4: a cell whose type code is not in the codec ends the call with a
\* KeyError, no element is appended for the cell and nothing is returned
C4_MissingCode ==
    [][(InLoop /\ CellType \notin DOMAIN codec) =>
          /\ pc' = "raised"
          /\ result'.kind = "raised" /\ result'.error = "KeyError"
          /\ model' = model]_vars

\* the lookup failed after earlier cells had built elements
C4_Witness ==
    /\ call = "crust2_to_tesseroids" /\ pc = "raised"
    /\ result.kind = "raised" /\ result.error = "KeyError"
    /\ CellType \notin DOMAIN codec
    /\ Len(model) > 0

\* C10: every element emitted for cell (i, j) has west = -180 + 2j,
\* east = west + 2, north = 90 - 2i, south = north - 2, inside
\* [-180, 180] x [-90, 90]
C10_Footprint ==
    [][InLoop =>
          \A k \in 1..Len(NewElems) :
             LET el == NewElems[k]
             IN  /\ el.w = -180 + 2 * j /\ el.e = el.w + 2
                 /\ el.n = 90 - 2 * i /\ el.s = el.n - 2
                 /\ el.w >= -180 /\ el.e <= 180
                 /\ el.s >= -90 /\ el.n <= 90]_vars

\* the whole grid was walked and the last cell (89, 179) emitted elements
C10_Witness ==
    /\ call = "crust2_to_tesseroids" /\ pc = "returned"
    /\ result.kind = "returned"
    /\ Len(result.value) > 0
    /\ result.value[Len(result.value)].e = 180
    /\ result.value[Len(result.value)].s = -90

\* C7 (as claimed): when a call has returned or raised, no handle it opened
\* is still open
C7_HandlesClosed ==
    (call \in {"crust2_to_tesseroids", "load_surfer"} /\ pc \in {"returned", "raised"})
        => handles = {}

-----------------------------------------------------------------------------
(* Properties of _crust2_get_codec *)

CodecReturned == call = "_crust2_get_codec" /\ pc = "returned"

\* every Vp, Vs, density and thickness line of a complete group holds 8 values
EightValues(raw) ==
    LET ls == LegendLines(raw)
    IN  \A k \in 1..(5 * NumGroups(ls)) :
            (k - 1) % 5 # 0 => Len(Split(ls[k])) = 8

\* C5 (as claimed): from a legend of 8-value lines, vp, vs, density and
\* thickness all have length 7
C5_AllLength7 ==
    (CodecReturned /\ EightValues(archive.key)) =>
        \A c \in DOMAIN result.value :
            /\ Len(result.value[c].vp) = 7
            /\ Len(result.value[c].vs) = 7
            /\ Len(result.value[c].density) = 7
            /\ Len(result.value[c].thickness) = 7

\* the non-blank legend lines come in groups of 5 and every numeric line has
\* the tokens it needs
WellFormedLegend(raw) ==
    LET ls == LegendLines(raw)
    IN  /\ Len(ls) % 5 = 0
        /\ \A k \in 1..Len(ls) :
              /\ (k - 1) % 5 \in {1, 2, 3} => Len(Split(ls[k])) >= 8
              /\ (k - 1) % 5 = 4 => Len(Split(ls[k])) >= 7

\* C6 (as claimed): a codec is returned only from a well-formed legend
C6_MalformedRejected == CodecReturned => WellFormedLegend(archive.key)

-----------------------------------------------------------------------------
(* Properties of load_surfer *)

SurferReturned == call = "load_surfer" /\ pc = "returned"

\* C8 (as claimed): load_surfer returns only when header lines 2-5 hold two
\* tokens each and the body is ny rows of nx columns; the axes have lengths
\* nx and ny
C8_ShapeChecked ==
    SurferReturned =>
        /\ \A k \in 2..5 : Len(Split(ReadLine(sfile, k))) = 2
        /\ Len(result.value.grd) = hdr.ny
        /\ \A r \in 1..Len(result.value.grd) : Len(result.value.grd[r]) = hdr.nx
        /\ Len(result.value.xc) = hdr.nx
        /\ Len(result.value.yr) = hdr.ny

\* C9 (as claimed): a cell of the returned matrix is the missing-value
\* marker exactly when the value written there in the file body is
\* >= 1.70141e38, and every other body value is returned unchanged at its row
\* and column
C9_NullThreshold ==
    SurferReturned =>
        LET toks == BodyRows(sfile)
            out  == result.value.grd
        IN  /\ Len(out) = Len(toks)
            /\ \A r \in 1..Len(toks) :
                  /\ Len(out[r]) = Len(toks[r])
                  /\ \A c \in 1..Len(toks[r]) :
                        LET val == ParseFloat(toks[r][c])
                        IN  /\ out[r][c] = NaN <=>
                                 (val.ok /\ Geq(val.v, NullThreshold))
                            /\ out[r][c] # NaN => out[r][c] = val.v

\* C9 (amended): a cell of the returned matrix is the missing-value marker
\* exactly when the token written there reads as a number >= 1.70141e38, reads
\* as nan, or is no number at all; every other body value is returned
\* unchanged at its row and column
C9_NullOrNotANumber ==
    SurferReturned =>
        LET toks == BodyRows(sfile)
            out  == result.value.grd
        IN  /\ Len(out) = Len(toks)
            /\ \A r \in 1..Len(toks) :
                  /\ Len(out[r]) = Len(toks[r])
                  /\ \A c \in 1..Len(toks[r]) :
                        LET val == ParseFloat(toks[r][c])
                        IN  /\ out[r][c] = NaN <=>
                                 \/ ~val.ok
                                 \/ val.v = NaN
                                 \/ Geq(val.v, NullThreshold)
                            /\ out[r][c] # NaN => out[r][c] = val.v

\* a returned matrix holds the threshold itself as a marker next to the
\* value just below it, and a marker where the file has nan
C9_Witness ==
    /\ SurferReturned
    /\ \E r \in 1..Len(result.value.grd) :
          \E c \in 1..(Len(result.value.grd[r]) - 1) :
             /\ BodyRows(sfile)[r][c] = BodyVals[2]
             /\ BodyRows(sfile)[r][c + 1] = BodyVals[3]
             /\ result.value.grd[r][c] = ParseFloat(BodyVals[2]).v
             /\ result.value.grd[r][c + 1] = NaN
    /\ \E r \in 1..Len(result.value.grd) :
          \E c \in 1..Len(result.value.grd[r]) :
             /\ BodyRows(sfile)[r][c] = BodyVals[7]
             /\ result.value.grd[r][c] = NaN

====
